---------------------------- MODULE Spec2Model ----------------------------
(***************************************************************************)
(* Calculation core of the InterestRateSwaps dashboards: bond pricing,     *)
(* the cash-flow schedule, accrued interest and the yield solve.           *)
(*                                                                         *)
(* The functions are pure; the state machine is the caller: each action    *)
(* is one call of one function with arguments drawn from bounded sets,     *)
(* and the state records the call, its arguments and its outcome (the      *)
(* returned value or the exception raised).  The yield solve is the one    *)
(* iterative procedure and is modelled step by step.                       *)
(*                                                                         *)
(* Numbers.  The closed-form functions are evaluated over exact rationals  *)
(* <<n, d>> (d > 0, lowest terms).  The yield solve is evaluated in        *)
(* rounded decimal floating point (see the second part of the module),     *)
(* because its iterates have no bounded exact representation.              *)
(***************************************************************************)
EXTENDS Integers, Sequences, FiniteSets, TLC

VARIABLES fn, args, ret, pc, sv

vars == <<fn, args, ret, pc, sv>>

---------------------------------------------------------------------------
(* Bounds of the model. *)

MaxFace == 2          \* face values 1..MaxFace
MaxRateNum == 3       \* rates 0/10 .. MaxRateNum/10
MaxYears == 2         \* maturities up to MaxYears years, in half-year steps
MaxSolverYears == 5   \* maturities of the bonds whose yield is solved for

---------------------------------------------------------------------------
(* Exact rational arithmetic. *)

Abs(x) == IF x < 0 THEN -x ELSE x

RECURSIVE GCD(_, _)
GCD(a, b) == IF b = 0 THEN a ELSE GCD(b, a % b)

Rat(n, d) ==
    LET s == IF d < 0 THEN -1 ELSE 1
        g == GCD(Abs(n), Abs(d))
    IN  <<(s * n) \div g, (s * d) \div g>>

RInt(n) == <<n, 1>>
RZero == <<0, 1>>
ROne == <<1, 1>>

RNeg(x) == <<-x[1], x[2]>>

RAdd(x, y) ==
    LET g == GCD(x[2], y[2])
    IN  Rat(x[1] * (y[2] \div g) + y[1] * (x[2] \div g), (x[2] \div g) * y[2])

RSub(x, y) == RAdd(x, RNeg(y))

RMul(x, y) ==
    LET g1 == GCD(Abs(x[1]), y[2])
        g2 == GCD(Abs(y[1]), x[2])
    IN  IF x[1] = 0 \/ y[1] = 0 THEN RZero
        ELSE <<(x[1] \div g1) * (y[1] \div g2), (x[2] \div g2) * (y[2] \div g1)>>

\* 1/x for x # 0
RInv(x) == IF x[1] < 0 THEN <<-x[2], -x[1]>> ELSE <<x[2], x[1]>>

\* x / y for y # 0
RDiv(x, y) == RMul(x, RInv(y))

\* x ** n for an integer n (a negative n inverts; x # 0 then)
RECURSIVE RPowNat(_, _)
RPowNat(x, n) == IF n = 0 THEN ROne ELSE RMul(x, RPowNat(x, n - 1))

RPow(x, n) == IF n >= 0 THEN RPowNat(x, n) ELSE RInv(RPowNat(x, -n))

\* a/b < c/d for b, d > 0, without forming the cross products
RECURSIVE FracLess(_, _, _, _)
FracLess(a, b, c, d) ==
    LET qa == a \div b
        qc == c \div d
        ra == a - qa * b
        rc == c - qc * d
    IN  IF qa # qc THEN qa < qc
        ELSE IF rc = 0 THEN FALSE
        ELSE IF ra = 0 THEN TRUE
        ELSE FracLess(d, rc, b, ra)

RLess(x, y) == FracLess(x[1], x[2], y[1], y[2])
RLeq(x, y) == x = y \/ RLess(x, y)

RIsInt(x) == x[2] = 1

\* int(x): truncation toward zero
RTrunc(x) == IF x[1] >= 0 THEN x[1] \div x[2] ELSE -((-x[1]) \div x[2])

\* ceil(x)
RCeil(x) == -((-x[1]) \div x[2])

---------------------------------------------------------------------------
(* Outcomes of a call. *)

NoValue == <<0, 0>>

Returned(v) == [exc |-> "none", val |-> v]
Raised(e) == [exc |-> e, val |-> NoValue]

---------------------------------------------------------------------------
(* bond_price (2_topic1.py) and calculate_bond_price (3_topic1.py). *)

\* the loop one pass short: range(t, periods)
RECURSIVE coupon_loop_short(_, _, _, _, _)
coupon_loop_short(price, coupon, base, t, periods) ==
    IF t >= periods THEN price
    ELSE coupon_loop_short(RAdd(price, RDiv(coupon, RPow(base, t))),
                           coupon, base, t + 1, periods)

\* for t in range(t, periods + 1): price += coupon / (base ** t)
RECURSIVE coupon_loop(_, _, _, _, _)
coupon_loop(price, coupon, base, t, periods) ==
    IF t > periods THEN price
    ELSE coupon_loop(RAdd(price, RDiv(coupon, RPow(base, t))),
                     coupon, base, t + 1, periods)

\* bond_price with the face value repaid undiscounted
bond_price_face_undiscounted(face_value, coupon_rate, ytm, years_to_maturity, comp_per_year) ==
    LET periodsR == RMul(years_to_maturity, RInt(comp_per_year))
        coupon == RDiv(RMul(face_value, coupon_rate), RInt(comp_per_year))
        base == RAdd(ROne, RDiv(ytm, RInt(comp_per_year)))
    IN  IF comp_per_year = 0 THEN Raised("ZeroDivisionError")
        ELSE IF ~RIsInt(years_to_maturity) THEN Raised("TypeError")
        ELSE Returned(RAdd(coupon_loop(RZero, coupon, base, 1, periodsR[1]), face_value))

\* bond_price with the annual coupon paid every period
bond_price_annual_coupon(face_value, coupon_rate, ytm, years_to_maturity, comp_per_year) ==
    LET periodsR == RMul(years_to_maturity, RInt(comp_per_year))
        coupon == RMul(face_value, coupon_rate)
        base == RAdd(ROne, RDiv(ytm, RInt(comp_per_year)))
    IN  IF comp_per_year = 0 THEN Raised("ZeroDivisionError")
        ELSE IF ~RIsInt(years_to_maturity) THEN Raised("TypeError")
        ELSE Returned(RAdd(coupon_loop(RZero, coupon, base, 1, periodsR[1]),
                           RDiv(face_value, RPow(base, periodsR[1]))))

\* years_to_maturity is a rational; a whole number arrives as an int, any
\* other value as a float, and range() rejects a float bound.  With
\* comp_per_year = 0 the division for the coupon raises ZeroDivisionError.
bond_price(face_value, coupon_rate, ytm, years_to_maturity, comp_per_year) ==
    LET periodsR == RMul(years_to_maturity, RInt(comp_per_year))
        periods == periodsR[1]
        coupon == RDiv(RMul(face_value, coupon_rate), RInt(comp_per_year))
        base == RAdd(ROne, RDiv(ytm, RInt(comp_per_year)))
    IN  IF comp_per_year = 0 THEN Raised("ZeroDivisionError")
        ELSE IF ~RIsInt(years_to_maturity) THEN Raised("TypeError")
        ELSE IF base[1] = 0 /\ periods # 0 THEN Raised("ZeroDivisionError")
        ELSE Returned(RAdd(coupon_loop(RZero, coupon, base, 1, periods),
                           RDiv(face_value, RPow(base, periods))))

calculate_bond_price(face_value, coupon_rate, ytm, years_to_maturity, periods_per_year) ==
    LET period_rate == RDiv(ytm, RInt(periods_per_year))
        n_periodsR == RMul(years_to_maturity, RInt(periods_per_year))
        n_periods == n_periodsR[1]
        coupon == RDiv(RMul(face_value, coupon_rate), RInt(periods_per_year))
        base == RAdd(ROne, period_rate)
    IN  IF periods_per_year = 0 THEN Raised("ZeroDivisionError")
        ELSE IF ~RIsInt(years_to_maturity) THEN Raised("TypeError")
        ELSE IF base[1] = 0 /\ n_periods # 0 THEN Raised("ZeroDivisionError")
        ELSE Returned(RAdd(coupon_loop(RZero, coupon, base, 1, n_periods),
                           RDiv(face_value, RPow(base, n_periods))))

---------------------------------------------------------------------------
(* discount_factor and bond_valuation (1_topic1.py). *)

\* discount_factor with the exponent m in place of N = T*m
discount_factor_per_year(r, m, T) ==
    LET N == RMul(T, RInt(m))
    IN  IF RIsInt(N) THEN RDiv(ROne, RPow(RAdd(ROne, RDiv(r, RInt(m))), m))
        ELSE NoValue

\* 1 / (1 + r/m) ** (T*m).  The exponent N = T*m is a whole number at every
\* use in the model; a fractional power has no rational value (NoValue).
discount_factor(r, m, T) ==
    LET N == RMul(T, RInt(m))
    IN  IF RIsInt(N) THEN RDiv(ROne, RPow(RAdd(ROne, RDiv(r, RInt(m))), N[1]))
        ELSE NoValue

\* a call of discount_factor with its exceptions: a zero base raised to a
\* positive power makes the division raise ZeroDivisionError (0 ** 0 is 1)
discount_factor_call(r, m, T) ==
    LET N == RMul(T, RInt(m))
        base == RAdd(ROne, RDiv(r, RInt(m)))
    IN  IF base[1] = 0 /\ RLess(RZero, N) THEN Raised("ZeroDivisionError")
        ELSE Returned(discount_factor(r, m, T))

\* [coupon_payment] * periods, and nothing for periods <= 0
repeat_list(x, n) == [i \in 1..(IF n > 0 THEN n ELSE 0) |-> x]

\* np.arange(1/m, T + 1/m, 1/m): ceil((stop - start) / step) elements,
\* start + i*step
arange_times(m, T) ==
    LET n == RCeil(RMul(T, RInt(m)))
    IN  [i \in 1..(IF n > 0 THEN n ELSE 0) |-> Rat(i, m)]

\* for i, cf in enumerate(cash_flows): PV += cf * discount_factor(r, m, times[i])
RECURSIVE pv_loop(_, _, _, _, _, _)
pv_loop(PV, cash_flows, times, r, m, i) ==
    IF i > Len(cash_flows) THEN PV
    ELSE pv_loop(RAdd(PV, RMul(cash_flows[i], discount_factor(r, m, times[i]))),
                 cash_flows, times, r, m, i + 1)

bond_valuation(coupon, face_value, r, m, T) ==
    LET periods == RTrunc(RMul(T, RInt(m)))
        coupon_payment == RDiv(RMul(coupon, face_value), RInt(m))
        flat == repeat_list(coupon_payment, periods)
        cash_flows == [flat EXCEPT ![Len(flat)] = RAdd(@, face_value)]
        times == arange_times(m, T)
    IN  IF m = 0 THEN Raised("ZeroDivisionError")
        ELSE IF Len(flat) = 0 THEN Raised("IndexError")
        ELSE [exc |-> "none",
              val |-> pv_loop(RZero, cash_flows, times, r, m, 1),
              cash_flows |-> cash_flows,
              times |-> times]

---------------------------------------------------------------------------
(* accrued_interest (2_topic1.py); dates are day numbers. *)

\* accrued_interest counting the days left to the next coupon
accrued_interest_remaining(face_value, coupon_rate, settlement_date, last_coupon_date, next_coupon_date, comp_per_year) ==
    LET days_in_period == next_coupon_date - last_coupon_date
        days_accrued == next_coupon_date - settlement_date
        coupon_payment == RDiv(RMul(face_value, coupon_rate), RInt(comp_per_year))
    IN  IF days_in_period = 0 THEN Raised("ZeroDivisionError")
        ELSE Returned(RMul(coupon_payment, Rat(days_accrued, days_in_period)))

accrued_interest(face_value, coupon_rate, settlement_date, last_coupon_date, next_coupon_date, comp_per_year) ==
    LET days_in_period == next_coupon_date - last_coupon_date
        days_accrued == settlement_date - last_coupon_date
        coupon_payment == RDiv(RMul(face_value, coupon_rate), RInt(comp_per_year))
    IN  IF days_in_period = 0 THEN Raised("ZeroDivisionError")
        ELSE Returned(RMul(coupon_payment, Rat(days_accrued, days_in_period)))

---------------------------------------------------------------------------
(* The price-yield curves of update_output (2_topic1.py):                  *)
(*   prices = [bond_price(face_value, coupon_rate, y, years, comp)         *)
(*             for y in ytm_values]                                        *)
(* and of update_metrics (3_topic1.py), with calculate_bond_price;         *)
(* ytm_values is an increasing grid of yields.                             *)

ytm_values == [i \in 1..(MaxRateNum + 1) |-> Rat(i - 1, 10)]

price_curve(pricer, face_value, coupon_rate, years, comp) ==
    LET each == [i \in 1..Len(ytm_values) |->
                    IF pricer = "bond_price"
                    THEN bond_price(face_value, coupon_rate, ytm_values[i], years, comp)
                    ELSE calculate_bond_price(face_value, coupon_rate, ytm_values[i],
                                              years, comp)]
    IN  IF \E i \in 1..Len(each) : each[i].exc # "none"
        THEN Raised((each[1]).exc)
        ELSE [exc |-> "none", val |-> NoValue,
              prices |-> [i \in 1..Len(each) |-> each[i].val]]

---------------------------------------------------------------------------
(* Decimal floating point: <<m, e>> is m * 10^e, with m = 0 or              *)
(* 10^(Digits-1) <= |m| < 10^Digits; every operation rounds its exact       *)
(* result to the nearest such number (a tie to the even one).  It stands    *)
(* for the binary floats of the program (53 bits, about 16 digits) at a     *)
(* mantissa of 8 digits; the exponent is not bounded.                       *)

MantMax == 100000000      \* 10^Digits, Digits = 8
MantHalf == 10000         \* 10^(Digits/2)

RECURSIVE Pow10(_)
Pow10(k) == IF k <= 0 THEN 1 ELSE 10 * Pow10(k - 1)

RECURSIVE NumDigits(_)
NumDigits(n) == IF n < 10 THEN 1 ELSE 1 + NumDigits(n \div 10)

\* q + 1 or q: the quotient q rounded on the remainder r of a division by d
RoundUp(q, r, d) ==
    IF r > d - r \/ (r = d - r /\ q % 2 = 1) THEN q + 1 ELSE q

\* the float nearest to n * 10^e, for an integer n
FNorm(n, e) ==
    LET a == Abs(n)
        s == IF n < 0 THEN -1 ELSE 1
        d == NumDigits(a)
    IN  IF n = 0 THEN <<0, 0>>
        ELSE IF d > 8
             THEN LET k == d - 8
                      q == RoundUp(a \div Pow10(k), a % Pow10(k), Pow10(k))
                  IN  IF q = MantMax THEN <<s * (MantMax \div 10), e + k + 1>>
                      ELSE <<s * q, e + k>>
             ELSE <<s * a * Pow10(8 - d), e - (8 - d)>>

FZero == <<0, 0>>
FInt(n) == FNorm(n, 0)
FNeg(x) == <<-x[1], x[2]>>
FAbs(x) == <<Abs(x[1]), x[2]>>

FLess(x, y) ==
    IF x[1] < 0 /\ y[1] < 0
    THEN (x[2] > y[2]) \/ (x[2] = y[2] /\ x[1] < y[1])
    ELSE IF x[1] <= 0 \/ y[1] <= 0 THEN x[1] < y[1]
    ELSE (x[2] < y[2]) \/ (x[2] = y[2] /\ x[1] < y[1])

FLeq(x, y) == x = y \/ FLess(x, y)

FMul(x, y) ==
    LET s == IF (x[1] < 0) # (y[1] < 0) THEN -1 ELSE 1
        a == Abs(x[1]) \div MantHalf
        b == Abs(x[1]) % MantHalf
        c == Abs(y[1]) \div MantHalf
        d == Abs(y[1]) % MantHalf
        mid == a * d + b * c
        lo0 == (mid % MantHalf) * MantHalf + b * d
        hi == a * c + (mid \div MantHalf) + (lo0 \div MantMax)
        lo == lo0 % MantMax
    IN  IF x[1] = 0 \/ y[1] = 0 THEN FZero
        ELSE IF hi >= MantMax \div 10
             THEN FNorm(s * RoundUp(hi, lo, MantMax), x[2] + y[2] + 8)
             ELSE FNorm(s * RoundUp(hi * 10 + lo \div (MantMax \div 10),
                                    lo % (MantMax \div 10), MantMax \div 10),
                        x[2] + y[2] + 7)

\* k more digits of the quotient: <<digits, remainder>>
RECURSIVE DivDigits(_, _, _, _)
DivDigits(acc, r, d, k) ==
    IF k = 0 THEN <<acc, r>>
    ELSE DivDigits(acc * 10 + (r * 10) \div d, (r * 10) % d, d, k - 1)

\* x / y for y # 0
FDiv(x, y) ==
    LET s == IF (x[1] < 0) # (y[1] < 0) THEN -1 ELSE 1
        n == Abs(x[1])
        d == Abs(y[1])
        q0 == n \div d
        k == IF q0 >= 1 THEN 7 ELSE 8
        qr == DivDigits(q0, n % d, d, k)
        q == RoundUp(qr[1], qr[2], d)
    IN  IF x[1] = 0 THEN FZero
        ELSE FNorm(s * q, x[2] - y[2] - k)

\* x + y, with one guard digit
FAdd(x, y) ==
    LET hi == IF x[2] >= y[2] THEN x ELSE y
        lo == IF x[2] >= y[2] THEN y ELSE x
        diff == hi[2] - lo[2]
        a == Abs(lo[1])
        sl == IF lo[1] < 0 THEN -1 ELSE 1
        shifted == IF diff <= 1 THEN lo[1] * Pow10(1 - diff)
                   ELSE sl * RoundUp(a \div Pow10(diff - 1),
                                     a % Pow10(diff - 1), Pow10(diff - 1))
    IN  IF x[1] = 0 THEN y
        ELSE IF y[1] = 0 THEN x
        ELSE IF diff >= 10 THEN hi
        ELSE FNorm(hi[1] * 10 + shifted, hi[2] - 1)

FSub(x, y) == FAdd(x, FNeg(y))

\* x ** n for an int n >= 0, by squaring
RECURSIVE FPowNat(_, _)
FPowNat(x, n) ==
    IF n = 0 THEN FInt(1)
    ELSE IF n % 2 = 0 THEN LET h == FPowNat(x, n \div 2) IN FMul(h, h)
    ELSE FMul(x, FPowNat(x, n - 1))

\* the float of the rational x
FromRat(x) == FDiv(FInt(x[1]), FInt(x[2]))

---------------------------------------------------------------------------
(* bond_price (2_topic1.py) on floats, as the yield solve evaluates it. *)

\* for t in range(t, periods + 1): price += coupon / (base ** t)
RECURSIVE coupon_loop_float(_, _, _, _, _)
coupon_loop_float(price, coupon, base, t, periods) ==
    IF t > periods THEN price
    ELSE coupon_loop_float(FAdd(price, FDiv(coupon, FPowNat(base, t))),
                           coupon, base, t + 1, periods)

bond_price_float(face_value, coupon_rate, ytm, years_to_maturity, comp_per_year) ==
    LET periodsR == RMul(years_to_maturity, RInt(comp_per_year))
        periods == periodsR[1]
        coupon == FDiv(FMul(face_value, coupon_rate), FInt(comp_per_year))
        base == FAdd(FInt(1), FDiv(ytm, FInt(comp_per_year)))
    IN  IF ~RIsInt(years_to_maturity) THEN Raised("TypeError")
        ELSE IF base[1] = 0 /\ periods # 0 THEN Raised("ZeroDivisionError")
        ELSE Returned(FAdd(coupon_loop_float(FZero, coupon, base, 1, periods),
                           FDiv(face_value, FPowNat(base, periods))))

\* calculate_bond_price (3_topic1.py) on floats
calculate_bond_price_float(face_value, coupon_rate, ytm, years_to_maturity, periods_per_year) ==
    LET period_rate == FDiv(ytm, FInt(periods_per_year))
        n_periodsR == RMul(years_to_maturity, RInt(periods_per_year))
        n_periods == n_periodsR[1]
        coupon == FDiv(FMul(face_value, coupon_rate), FInt(periods_per_year))
        base == FAdd(FInt(1), period_rate)
    IN  IF ~RIsInt(years_to_maturity) THEN Raised("TypeError")
        ELSE IF base[1] = 0 /\ n_periods # 0 THEN Raised("ZeroDivisionError")
        ELSE Returned(FAdd(coupon_loop_float(FZero, coupon, base, 1, n_periods),
                           FDiv(face_value, FPowNat(base, n_periods))))

---------------------------------------------------------------------------
(* calculate_ytm (2_topic1.py): newton(ytm_func, coupon_rate, maxiter=100) *)
(* with no derivative given, which is the secant iteration of              *)
(* scipy.optimize.newton, inside try/except.                               *)

maxiter == 100
eps == <<10000000, -11>>      \* 1e-4, the offset of the second start point
\* newton's default tolerance is 1.48e-8, eight orders above the precision
\* of the program's floats.  The floats of the model carry 8 digits, and the
\* tolerance is kept two orders above them: 1.48e-6.
tol == <<14800000, -13>>

\* ytm_func(y) = bond_price(face_value, coupon_rate, y, years, comp) - price
ytm_func(a, y) ==
    LET b == bond_price_float(a.face_value, a.coupon_rate, y,
                              a.years_to_maturity, a.comp_per_year)
    IN  IF b.exc # "none" THEN b ELSE Returned(FSub(b.val, a.price))

\* an except clause that lets the exception through
ytm_reraise(e) == [exc |-> e, val |-> FZero, nan |-> FALSE, why |-> e]

\* an except clause that returns a yield of 0 for the failure
ytm_except_zero(e) == [exc |-> "none", val |-> FZero, nan |-> FALSE, why |-> e]

\* except: return np.nan
ytm_except(e) == [exc |-> "none", val |-> FZero, nan |-> TRUE, why |-> e]

\* return newton(...)
ytm_return(p) == [exc |-> "none", val |-> p, nan |-> FALSE, why |-> "converged"]

\* the second start point: p1 = x0 * (1 + eps); p1 += eps if p1 >= 0 else -eps
second_guess(x0) ==
    LET p1 == FMul(x0, FAdd(FInt(1), eps))
    IN  IF p1[1] >= 0 THEN FAdd(p1, eps) ELSE FSub(p1, eps)

\* the secant step from (p0, q0), (p1, q1), q1 # q0
secant_point(p0, q0, p1, q1) ==
    IF FLess(FAbs(q0), FAbs(q1))
    THEN FDiv(FAdd(FMul(FDiv(FNeg(q0), q1), p1), p0),
              FSub(FInt(1), FDiv(q0, q1)))
    ELSE FDiv(FAdd(FMul(FDiv(FNeg(q1), q0), p0), p1),
              FSub(FInt(1), FDiv(q1, q0)))

\* np.isclose(p, p1, rtol=0, atol=tol)
isclose(p, p1) == FLeq(FAbs(FSub(p, p1)), tol)

---------------------------------------------------------------------------
(* Repo, forward, carry, roll-down and repo-adjusted yield (4_topic1.py),  *)
(* on exact fractions; day counts are integers.                            *)

\* calculate_repo_transaction with a 365-day year
calculate_repo_transaction_365(principal, repo_rate, days) ==
    IF days <= 0 \/ RLess(repo_rate, RZero) \/ RLeq(principal, RZero)
    THEN Returned(RZero)
    ELSE LET interest == RDiv(RMul(RMul(principal, repo_rate), RInt(days)), RInt(365))
         IN  Returned(RAdd(principal, interest))

calculate_repo_transaction(principal, repo_rate, days) ==
    IF days <= 0 \/ RLess(repo_rate, RZero) \/ RLeq(principal, RZero)
    THEN Returned(RZero)
    ELSE LET interest == RDiv(RMul(RMul(principal, repo_rate), RInt(days)), RInt(360))
             repayment == RAdd(principal, interest)
         IN  Returned(repayment)

\* calculate_forward_price that also subtracts a coupon paid on the forward date
calculate_forward_price_coupon_on_date(dirty_price, repo_rate, days_to_forward, coupon, days_to_coupon) ==
    IF days_to_forward <= 0 THEN Returned(dirty_price)
    ELSE LET coupon_fv ==
                 IF days_to_coupon <= days_to_forward /\ days_to_coupon > 0
                 THEN RMul(coupon,
                           RAdd(ROne, RDiv(RMul(repo_rate,
                                                RInt(days_to_forward - days_to_coupon)),
                                           RInt(360))))
                 ELSE RZero
             forward_dirty ==
                 RSub(RMul(dirty_price,
                           RAdd(ROne, RDiv(RMul(repo_rate, RInt(days_to_forward)),
                                           RInt(360)))),
                      coupon_fv)
         IN  Returned(forward_dirty)

\* calculate_forward_price without the early return for days_to_forward <= 0
calculate_forward_price_unguarded(dirty_price, repo_rate, days_to_forward, coupon, days_to_coupon) ==
    LET coupon_fv ==
            IF days_to_coupon < days_to_forward /\ days_to_coupon > 0
            THEN RMul(coupon,
                      RAdd(ROne, RDiv(RMul(repo_rate,
                                           RInt(days_to_forward - days_to_coupon)),
                                      RInt(360))))
            ELSE RZero
    IN  Returned(RSub(RMul(dirty_price,
                           RAdd(ROne, RDiv(RMul(repo_rate, RInt(days_to_forward)),
                                           RInt(360)))),
                      coupon_fv))

calculate_forward_price(dirty_price, repo_rate, days_to_forward, coupon, days_to_coupon) ==
    IF days_to_forward <= 0 THEN Returned(dirty_price)
    ELSE LET coupon_fv ==
                 IF days_to_coupon < days_to_forward /\ days_to_coupon > 0
                 THEN RMul(coupon,
                           RAdd(ROne, RDiv(RMul(repo_rate,
                                                RInt(days_to_forward - days_to_coupon)),
                                           RInt(360))))
                 ELSE RZero
             forward_dirty ==
                 RSub(RMul(dirty_price,
                           RAdd(ROne, RDiv(RMul(repo_rate, RInt(days_to_forward)),
                                           RInt(360)))),
                      coupon_fv)
         IN  Returned(forward_dirty)

calculate_carry(spot_price, forward_price) == RSub(forward_price, spot_price)

\* calculate_roll_down that takes the last yield off the history
calculate_roll_down_pop(current_yield, historical_yields) ==
    IF Len(historical_yields) = 0
    THEN [exc |-> "none", val |-> RZero, historical_yields |-> historical_yields]
    ELSE [exc |-> "none",
          val |-> RSub(current_yield, historical_yields[Len(historical_yields)]),
          historical_yields |-> SubSeq(historical_yields, 1, Len(historical_yields) - 1)]

\* the record returned carries the history as the call leaves it
calculate_roll_down(current_yield, historical_yields) ==
    IF Len(historical_yields) = 0
    THEN [exc |-> "none", val |-> RZero, historical_yields |-> historical_yields]
    ELSE [exc |-> "none",
          val |-> RSub(current_yield, historical_yields[Len(historical_yields)]),
          historical_yields |-> historical_yields]

\* repo_adjusted_yield without the 365/360 day-count conversion
repo_adjusted_yield_no_daycount(special_yield, gc_rate, special_rate, holding_days, pv01) ==
    IF RLeq(pv01, RZero) \/ holding_days <= 0 THEN Returned(special_yield)
    ELSE LET adjustment ==
                 RDiv(RMul(RSub(gc_rate, special_rate), RInt(holding_days)),
                      RMul(pv01, RInt(100)))
         IN  Returned(RAdd(special_yield, adjustment))

repo_adjusted_yield(special_yield, gc_rate, special_rate, holding_days, pv01) ==
    IF RLeq(pv01, RZero) \/ holding_days <= 0 THEN Returned(special_yield)
    ELSE LET adjustment ==
                 RDiv(RMul(RMul(RSub(gc_rate, special_rate), RInt(365)),
                           RInt(holding_days)),
                      RMul(RMul(RInt(360), pv01), RInt(100)))
         IN  Returned(RAdd(special_yield, adjustment))

---------------------------------------------------------------------------
(* Exact fractions of any size, for the 1-basis-point differences of the   *)
(* risk metrics: a natural number is the sequence of its base-LimbBase     *)
(* digits, lowest first; an integer is <<sign, magnitude>>; a fraction is  *)
(* <<integer, positive natural>>, not reduced.                             *)

LimbBase == 10000

\* Op applied to the value of x (of x and y): the argument is evaluated once,
\* however often Op reads it
Strict1(Op(_), x) == CHOOSE r \in {Op(v) : v \in {x}} : TRUE
Strict2(Op(_, _), x, y) == CHOOSE r \in {Op(v, w) : v \in {x}, w \in {y}} : TRUE

\* the highest index of a non-empty set of indices
Highest(S) == CHOOSE i \in S : \A j \in S : j <= i

\* a without its leading zero digits
BTrim(a) ==
    Strict1(LAMBDA v :
                LET nonzero == {i \in 1..Len(v) : v[i] # 0}
                IN  IF nonzero = {} THEN <<>> ELSE SubSeq(v, 1, Highest(nonzero)),
            a)

RECURSIVE BNat(_)
BNat(n) == IF n = 0 THEN <<>> ELSE <<n % LimbBase>> \o BNat(n \div LimbBase)

Limb(a, i) == IF i <= Len(a) THEN a[i] ELSE 0

\* <<digit, carry out>> of the sum s of two digits and a carry
SplitDigit(s) == <<(<<s % LimbBase>>), s \div LimbBase>>

\* the two halves of a range of digits joined: low and high are <<digits,
\* carry out>> of the lower and the upper half
Joined(low, high) == <<low[1] \o high[1], high[2]>>

\* digits followed by the carry out, if there is one
WithCarry(r) == IF r[2] = 0 THEN r[1] ELSE Append(r[1], r[2])

\* <<digits lo..hi of a + b + carry, carry out>>, by halving the range
RECURSIVE BAddRange(_, _, _, _, _)
BAddRange(a, b, lo, hi, carry) ==
    IF lo = hi THEN Strict1(SplitDigit, Limb(a, lo) + Limb(b, lo) + carry)
    ELSE LET mid == (lo + hi) \div 2
         IN  Strict1(LAMBDA low :
                         Strict1(LAMBDA high : Joined(low, high),
                                 BAddRange(a, b, mid + 1, hi, low[2])),
                     BAddRange(a, b, lo, mid, carry))

BAdd(a, b) ==
    Strict2(LAMBDA v, w :
                LET n == IF Len(v) > Len(w) THEN Len(v) ELSE Len(w)
                IN  IF n = 0 THEN <<>>
                    ELSE Strict1(WithCarry, BAddRange(v, w, 1, n, 0)),
            a, b)

\* <<digit, borrow out>> of the difference d of two digits and a borrow
BorrowDigit(d) == IF d < 0 THEN <<(<<d + LimbBase>>), 1>> ELSE <<(<<d>>), 0>>

\* <<digits lo..hi of a - b - borrow, borrow out>>
RECURSIVE BSubRange(_, _, _, _, _)
BSubRange(a, b, lo, hi, borrow) ==
    IF lo = hi THEN Strict1(BorrowDigit, a[lo] - Limb(b, lo) - borrow)
    ELSE LET mid == (lo + hi) \div 2
         IN  Strict1(LAMBDA low :
                         Strict1(LAMBDA high : Joined(low, high),
                                 BSubRange(a, b, mid + 1, hi, low[2])),
                     BSubRange(a, b, lo, mid, borrow))

\* a - b for a >= b
BSub(a, b) ==
    Strict2(LAMBDA v, w :
                IF v = <<>> THEN <<>> ELSE BTrim(BSubRange(v, w, 1, Len(v), 0)[1]),
            a, b)

BLess(a, b) ==
    Strict2(LAMBDA v, w :
                IF Len(v) # Len(w) THEN Len(v) < Len(w)
                ELSE LET differ == {i \in 1..Len(v) : v[i] # w[i]}
                     IN  differ # {} /\ v[Highest(differ)] < w[Highest(differ)],
            a, b)

\* <<digits lo..hi of a * d + carry, carry out>>, d a single digit
RECURSIVE BMulLimbRange(_, _, _, _, _)
BMulLimbRange(a, d, lo, hi, carry) ==
    IF lo = hi THEN Strict1(SplitDigit, a[lo] * d + carry)
    ELSE LET mid == (lo + hi) \div 2
         IN  Strict1(LAMBDA low :
                         Strict1(LAMBDA high : Joined(low, high),
                                 BMulLimbRange(a, d, mid + 1, hi, low[2])),
                     BMulLimbRange(a, d, lo, mid, carry))

\* a * d for a # <<>>
BMulLimb(a, d) == Strict1(WithCarry, BMulLimbRange(a, d, 1, Len(a), 0))

Zeros(k) == [i \in 1..k |-> 0]

\* the sum over i in lo..hi of a[i] * b * LimbBase^(i - lo), for b # <<>>
RECURSIVE BMulRange(_, _, _, _)
BMulRange(a, b, lo, hi) ==
    IF lo = hi THEN BMulLimb(b, a[lo])
    ELSE LET mid == (lo + hi) \div 2
         IN  BAdd(BMulRange(a, b, lo, mid),
                  Zeros(mid + 1 - lo) \o BMulRange(a, b, mid + 1, hi))

BMul(a, b) ==
    Strict2(LAMBDA v, w :
                IF v = <<>> \/ w = <<>> THEN <<>>
                ELSE BTrim(BMulRange(v, w, 1, Len(v))),
            a, b)

ZZero == <<0, <<>>>>
ZInt(n) == <<IF n > 0 THEN 1 ELSE IF n < 0 THEN -1 ELSE 0, BNat(Abs(n))>>
ZNeg(x) == <<-x[1], x[2]>>

ZAdd(x, y) ==
    Strict2(LAMBDA v, w :
                IF v[1] = 0 THEN w
                ELSE IF w[1] = 0 THEN v
                ELSE IF v[1] = w[1] THEN <<v[1], BAdd(v[2], w[2])>>
                ELSE IF v[2] = w[2] THEN ZZero
                ELSE IF BLess(w[2], v[2]) THEN <<v[1], BSub(v[2], w[2])>>
                ELSE <<w[1], BSub(w[2], v[2])>>,
            x, y)

ZMul(x, y) ==
    Strict2(LAMBDA v, w :
                IF v[1] * w[1] = 0 THEN ZZero ELSE <<v[1] * w[1], BMul(v[2], w[2])>>,
            x, y)

QFrac(n, d) == <<ZInt(n), BNat(d)>>
QInt(n) == QFrac(n, 1)
QNeg(x) == Strict1(LAMBDA v : <<ZNeg(v[1]), v[2]>>, x)
QSign(x) == x[1][1]
QIsZero(x) == QSign(x) = 0

QAdd(x, y) ==
    Strict2(LAMBDA v, w :
                IF v[2] = w[2] THEN <<ZAdd(v[1], w[1]), v[2]>>
                ELSE <<ZAdd(ZMul(v[1], <<1, w[2]>>), ZMul(w[1], <<1, v[2]>>)),
                       BMul(v[2], w[2])>>,
            x, y)

QSub(x, y) == QAdd(x, QNeg(y))
QMul(x, y) == Strict2(LAMBDA v, w : <<ZMul(v[1], w[1]), BMul(v[2], w[2])>>, x, y)

\* x / y for y # 0
QDiv(x, y) ==
    Strict2(LAMBDA v, w : <<ZMul(v[1], <<QSign(w), w[2]>>), BMul(v[2], w[1][2])>>,
            x, y)

RECURSIVE QPowNat(_, _)
QPowNat(x, n) == IF n = 0 THEN QInt(1) ELSE QMul(x, QPowNat(x, n - 1))

QLess(x, y) == QSign(QSub(x, y)) < 0
QLeq(x, y) == QSign(QSub(x, y)) <= 0
QEq(x, y) == QIsZero(QSub(x, y))

---------------------------------------------------------------------------
(* pv01, pvbp and convexity (3_topic1.py) on exact fractions; each prices  *)
(* the bond with calculate_bond_price at its default 2 periods per year.   *)

\* for t in range(t, n_periods + 1): price += coupon / (base ** t)
RECURSIVE coupon_loop_big(_, _, _, _, _)
coupon_loop_big(price, coupon, base, t, periods) ==
    IF t > periods THEN price
    ELSE coupon_loop_big(QAdd(price, QDiv(coupon, QPowNat(base, t))),
                         coupon, base, t + 1, periods)

\* calculate_bond_price; years_to_maturity is an int here
calculate_bond_price_big(face_value, coupon_rate, ytm, years_to_maturity, periods_per_year) ==
    LET period_rate == QDiv(ytm, QInt(periods_per_year))
        n_periods == years_to_maturity * periods_per_year
        coupon == QDiv(QMul(face_value, coupon_rate), QInt(periods_per_year))
        base == QAdd(QInt(1), period_rate)
    IN  IF QIsZero(base) /\ n_periods > 0 THEN Raised("ZeroDivisionError")
        ELSE Returned(QAdd(coupon_loop_big(QInt(0), coupon, base, 1, n_periods),
                           QDiv(face_value, QPowNat(base, n_periods))))

\* the 0.0001 of the three metrics
BasisPoint == QFrac(1, 10000)

\* the first exception of a sequence of calls, "none" if there is none
FirstException(calls) ==
    IF \A i \in 1..Len(calls) : calls[i].exc = "none" THEN "none"
    ELSE calls[CHOOSE i \in 1..Len(calls) :
                  /\ calls[i].exc # "none"
                  /\ \A j \in 1..(i - 1) : calls[j].exc = "none"].exc

\* return (price_base - price_shift) * 100
pv01_return(price_base, price_shift) ==
    IF FirstException(<<price_base, price_shift>>) # "none"
    THEN Raised(FirstException(<<price_base, price_shift>>))
    ELSE Returned(QMul(QSub(price_base.val, price_shift.val), QInt(100)))

\* return (price_shift - price_base) * 100
pvbp_return(price_base, price_shift) ==
    IF FirstException(<<price_base, price_shift>>) # "none"
    THEN Raised(FirstException(<<price_base, price_shift>>))
    ELSE Returned(QMul(QSub(price_shift.val, price_base.val), QInt(100)))

\* pv01 with the two prices subtracted the other way round
pv01_reversed(face_value, coupon_rate, ytm, years_to_maturity) ==
    Strict2(pvbp_return,
            calculate_bond_price_big(face_value, coupon_rate, ytm, years_to_maturity, 2),
            calculate_bond_price_big(face_value, coupon_rate, QAdd(ytm, BasisPoint),
                                     years_to_maturity, 2))

pv01(face_value, coupon_rate, ytm, years_to_maturity) ==
    Strict2(pv01_return,
            calculate_bond_price_big(face_value, coupon_rate, ytm, years_to_maturity, 2),
            calculate_bond_price_big(face_value, coupon_rate, QAdd(ytm, BasisPoint),
                                     years_to_maturity, 2))

\* return (price_shift - price_base) / price_base * 100
pvbp_return_relative(price_base, price_shift) ==
    IF FirstException(<<price_base, price_shift>>) # "none"
    THEN Raised(FirstException(<<price_base, price_shift>>))
    ELSE IF QIsZero(price_base.val) THEN Raised("ZeroDivisionError")
    ELSE Returned(QMul(QDiv(QSub(price_shift.val, price_base.val), price_base.val),
                       QInt(100)))

\* pvbp as the relative change of the price, not the change in cents
pvbp_relative(face_value, coupon_rate, ytm, years_to_maturity) ==
    Strict2(pvbp_return_relative,
            calculate_bond_price_big(face_value, coupon_rate, ytm, years_to_maturity, 2),
            calculate_bond_price_big(face_value, QAdd(coupon_rate, BasisPoint), ytm,
                                     years_to_maturity, 2))

\* pvbp that shifts the yield, not the coupon rate
pvbp_shifts_yield(face_value, coupon_rate, ytm, years_to_maturity) ==
    Strict2(pvbp_return,
            calculate_bond_price_big(face_value, coupon_rate, ytm, years_to_maturity, 2),
            calculate_bond_price_big(face_value, coupon_rate, QAdd(ytm, BasisPoint),
                                     years_to_maturity, 2))

pvbp(face_value, coupon_rate, ytm, years_to_maturity) ==
    Strict2(pvbp_return,
            calculate_bond_price_big(face_value, coupon_rate, ytm, years_to_maturity, 2),
            calculate_bond_price_big(face_value, QAdd(coupon_rate, BasisPoint), ytm,
                                     years_to_maturity, 2))

\* the three prices of convexity: <<price_up, price_base, price_down>>
convexity_prices(face_value, coupon_rate, ytm, years_to_maturity) ==
    <<calculate_bond_price_big(face_value, coupon_rate, QAdd(ytm, BasisPoint),
                               years_to_maturity, 2),
      calculate_bond_price_big(face_value, coupon_rate, ytm, years_to_maturity, 2),
      calculate_bond_price_big(face_value, coupon_rate, QSub(ytm, BasisPoint),
                               years_to_maturity, 2)>>

\* convexity with the second difference taken the other way round
convexity_return_reversed(prices) ==
    LET price_up == prices[1]
        price_base == prices[2]
        price_down == prices[3]
    IN  IF FirstException(prices) # "none" THEN Raised(FirstException(prices))
        ELSE IF QIsZero(price_base.val) THEN Raised("ZeroDivisionError")
        ELSE [exc |-> "none",
              val |-> QDiv(QMul(QSub(QMul(QInt(2), price_base.val),
                                     QAdd(price_up.val, price_down.val)),
                                QInt(100)),
                           QMul(price_base.val, QPowNat(BasisPoint, 2))),
              price_up |-> price_up.val,
              price_base |-> price_base.val,
              price_down |-> price_down.val]

\* return (price_up + price_down - 2 * price_base) * 100
\*            / (price_base * (0.0001 ** 2))
\* a float division by 0.0 raises ZeroDivisionError; the record returned
\* carries the three prices beside the value
convexity_return(prices) ==
    LET price_up == prices[1]
        price_base == prices[2]
        price_down == prices[3]
    IN  IF FirstException(prices) # "none" THEN Raised(FirstException(prices))
        ELSE IF QIsZero(price_base.val) THEN Raised("ZeroDivisionError")
        ELSE [exc |-> "none",
              val |-> QDiv(QMul(QSub(QAdd(price_up.val, price_down.val),
                                     QMul(QInt(2), price_base.val)),
                                QInt(100)),
                           QMul(price_base.val, QPowNat(BasisPoint, 2))),
              price_up |-> price_up.val,
              price_base |-> price_base.val,
              price_down |-> price_down.val]

convexity_reversed(face_value, coupon_rate, ytm, years_to_maturity) ==
    Strict1(convexity_return_reversed,
            convexity_prices(face_value, coupon_rate, ytm, years_to_maturity))

convexity(face_value, coupon_rate, ytm, years_to_maturity) ==
    Strict1(convexity_return,
            convexity_prices(face_value, coupon_rate, ytm, years_to_maturity))

---------------------------------------------------------------------------
(* The time value of money of 1_topic1.py, in the decimal floating point
   above.  T is a rational number of years and N = T * m a whole number of
   periods at every use. *)

\* one more term of the series of e^x: st = <<sum, term>>, term = x^(k-1)/(k-1)!
exp_step(st, x, k) ==
    LET t == FDiv(FMul(st[2], x), FInt(k))
    IN  <<FAdd(st[1], t), t>>

RECURSIVE exp_series(_, _, _)
exp_series(st, x, k) ==
    IF k > 14 THEN st[1]
    ELSE exp_series(Strict1(LAMBDA s : exp_step(s, x, k), st), x, k + 1)

\* math.exp(x) for 0 <= x < 2: the series 1 + x + x^2/2! + ... to x^14/14!,
\* whose remainder is below the last digit kept
math_exp(x) == exp_series(<<FInt(1), FInt(1)>>, x, 1)

\* (1 + r / m) ** N, N = T * m
compound_factor(r, m, T) ==
    FPowNat(FAdd(FInt(1), FDiv(r, FInt(m))), RMul(T, RInt(m))[1])

\* PV * (1 + r / m) ** N
future_value(PV, r, m, T) == FMul(PV, compound_factor(r, m, T))

\* PV * math.exp(r * T)
future_value_continuous(PV, r, T) == FMul(PV, math_exp(FMul(r, FromRat(T))))

\* PV * (1 + r * T)
future_value_simple(PV, r, T) == FMul(PV, FAdd(FInt(1), FMul(r, FromRat(T))))

\* FV / (1 + r / m) ** N
present_value(FV, r, m, T) == FDiv(FV, compound_factor(r, m, T))

\* 1 / (1 + r / m) ** N
discount_factor_float(r, m, T) == FDiv(FInt(1), compound_factor(r, m, T))

\* the calculations of update_app
update_app(PV, r, m, T) ==
    LET fv_discrete == future_value(PV, r, m, T)
    IN  [exc |-> "none",
         fv_discrete |-> fv_discrete,
         fv_continuous |-> future_value_continuous(PV, r, T),
         fv_simple |-> future_value_simple(PV, r, T),
         pv |-> present_value(fv_discrete, r, m, T),
         discount |-> discount_factor_float(r, m, T)]

---------------------------------------------------------------------------
(* Arguments the callers supply. *)

MaxDay == 3           \* coupon and settlement dates are days 0..MaxDay

FaceValues == {RInt(f) : f \in 1..MaxFace}
Rates == {Rat(k, 10) : k \in 0..MaxRateNum}
CompPerYear == {1, 2}
YearsToMaturity == {Rat(h, 2) : h \in 0..(2 * MaxYears)}
Days == 0..MaxDay
PricerFaces == FaceValues \cup {RZero, RInt(-1)}
PricerComps == CompPerYear \cup {0}
SolverYears == {Rat(h, 2) : h \in 1..(2 * MaxSolverYears)}

MaxHistory == 2       \* historical yields kept: 0..MaxHistory

Principals == {RInt(-1), RZero, RInt(100), RInt(1000000)}
RepoRates == {Rat(-1, 100), RZero, Rat(35, 1000), Rat(5, 100)}
RepoDays == {-1, 0, 1, 30, 90}
DirtyPrices == {RInt(100), RInt(1000)}
Coupons == {RZero, RInt(25)}
CurrentYields == {RZero, Rat(375, 10000), Rat(4, 100)}
Pv01s == {RInt(-1), RZero, RInt(1), Rat(1898, 1000)}
RiskFaces == {QInt(0), QInt(1000)}
RiskCoupons == {QInt(0), QFrac(5, 100)}
RiskYields == {QFrac(1, 10000), QFrac(6, 100)}
RiskYears == {1, 2}
DiscountRates == Rates \cup {Rat(-1, 10), RInt(-1), RInt(-2)}
PresentValues == {1, 100}

Histories == UNION {[1..n -> CurrentYields] : n \in 0..MaxHistory}

Idle == [state |-> "idle"]

Init ==
    /\ fn = "none"
    /\ args = <<>>
    /\ ret = Returned(NoValue)
    /\ pc = "idle"
    /\ sv = Idle

CallBondPrice ==
    /\ fn = "none"
    /\ \E f \in PricerFaces, c \in Rates, y \in Rates, yrs \in YearsToMaturity, m \in PricerComps :
        /\ fn' = "bond_price"
        /\ args' = [face_value |-> f, coupon_rate |-> c, ytm |-> y,
                    years_to_maturity |-> yrs, comp_per_year |-> m]
        /\ ret' = bond_price(f, c, y, yrs, m)
    /\ UNCHANGED <<pc, sv>>

CallCalculateBondPrice ==
    /\ fn = "none"
    /\ \E f \in PricerFaces, c \in Rates, y \in Rates, yrs \in YearsToMaturity, m \in PricerComps :
        /\ fn' = "calculate_bond_price"
        /\ args' = [face_value |-> f, coupon_rate |-> c, ytm |-> y,
                    years_to_maturity |-> yrs, comp_per_year |-> m]
        /\ ret' = calculate_bond_price(f, c, y, yrs, m)
    /\ UNCHANGED <<pc, sv>>

CallBondValuation ==
    /\ fn = "none"
    /\ \E c \in Rates, f \in PricerFaces, r \in Rates, m \in PricerComps, T \in YearsToMaturity :
        /\ fn' = "bond_valuation"
        /\ args' = [coupon |-> c, face_value |-> f, r |-> r, m |-> m, T |-> T]
        /\ ret' = bond_valuation(c, f, r, m, T)
    /\ UNCHANGED <<pc, sv>>

CallAccruedInterest ==
    /\ fn = "none"
    /\ \E f \in FaceValues, c \in Rates, s \in Days, l \in Days, n \in Days, m \in CompPerYear :
        /\ fn' = "accrued_interest"
        /\ args' = [face_value |-> f, coupon_rate |-> c, settlement_date |-> s,
                    last_coupon_date |-> l, next_coupon_date |-> n, comp_per_year |-> m]
        /\ ret' = accrued_interest(f, c, s, l, n, m)
    /\ UNCHANGED <<pc, sv>>

CallPriceCurve ==
    /\ fn = "none"
    /\ \E pricer \in {"bond_price", "calculate_bond_price"},
          f \in FaceValues, c \in Rates, yrs \in YearsToMaturity, m \in CompPerYear :
        /\ fn' = "price_curve"
        /\ args' = [pricer |-> pricer, face_value |-> f, coupon_rate |-> c,
                    years_to_maturity |-> yrs, comp_per_year |-> m]
        /\ ret' = price_curve(pricer, f, c, yrs, m)
    /\ UNCHANGED <<pc, sv>>

\* update_metrics (3_topic1.py): the percentages of the form are divided by
\* 100 and the bond is priced at the default 2 periods per year
CallMetricsPrice ==
    /\ fn = "none"
    /\ \E f \in {100, 1000}, cpct \in {0, 5}, ypct \in {5, 6}, yrs \in SolverYears :
        LET coupon_rate == FDiv(FInt(cpct), FInt(100))
            ytm == FDiv(FInt(ypct), FInt(100))
        IN  /\ fn' = "update_metrics"
            /\ args' = [face_value |-> FInt(f), coupon_rate |-> coupon_rate,
                        ytm |-> ytm, years_to_maturity |-> yrs]
            /\ ret' = calculate_bond_price_float(FInt(f), coupon_rate, ytm, yrs, 2)
    /\ UNCHANGED <<pc, sv>>

SolverFace == FInt(100)
SolverCoupons == {RZero, Rat(1, 20), Rat(1, 2)}
SolverYields == {Rat(1, 100), Rat(1, 20), Rat(1, 4)}

\* the prices the caller asks a yield for: the price of the bond at a yield
\* of the grid, the face value, and prices no yield can give
TargetPrices(c, yrs, m) ==
    {(bond_price_float(SolverFace, FromRat(c), FromRat(y), yrs, m)).val :
        y \in SolverYields}
    \cup {SolverFace, FZero, FInt(-1)}

\* calculate_ytm up to the first test of the loop: the two start points,
\* their function values, and the swap that keeps the better point last
CallCalculateYtm ==
    /\ fn = "none"
    /\ \E c \in SolverCoupons, yrs \in SolverYears, m \in CompPerYear :
        \E price \in TargetPrices(c, yrs, m) :
          LET a == [face_value |-> SolverFace, coupon_rate |-> FromRat(c),
                    price |-> price, years_to_maturity |-> yrs,
                    comp_per_year |-> m]
              p0 == a.coupon_rate
              p1 == second_guess(p0)
              f0 == ytm_func(a, p0)
              f1 == ytm_func(a, p1)
          IN  /\ fn' = "calculate_ytm"
              /\ args' = a
              /\ IF f0.exc # "none" \/ f1.exc # "none"
                 THEN /\ ret' = ytm_except(IF f0.exc # "none" THEN f0.exc ELSE f1.exc)
                      /\ pc' = "done"
                      /\ sv' = [p0 |-> p0, p1 |-> p1, q0 |-> FZero, q1 |-> FZero, itr |-> 0]
                 ELSE /\ ret' = Returned(NoValue)
                      /\ pc' = "secant"
                      /\ sv' = IF FLess(FAbs(f1.val), FAbs(f0.val))
                               THEN [p0 |-> p1, p1 |-> p0, q0 |-> f1.val, q1 |-> f0.val, itr |-> 0]
                               ELSE [p0 |-> p0, p1 |-> p1, q0 |-> f0.val, q1 |-> f1.val, itr |-> 0]

\* one pass of "for itr in range(maxiter)"
SecantIterate ==
    /\ pc = "secant"
    /\ sv.itr < maxiter
    /\ UNCHANGED <<fn, args>>
    /\ IF sv.q1 = sv.q0
       THEN /\ pc' = "done"
            /\ sv' = [sv EXCEPT !.itr = @ + 1]
            /\ ret' = IF sv.p1 # sv.p0 THEN ytm_except("RuntimeError: tolerance reached")
                      ELSE ytm_return(FDiv(FAdd(sv.p1, sv.p0), FInt(2)))
       ELSE LET p == secant_point(sv.p0, sv.q0, sv.p1, sv.q1)
                f == ytm_func(args, p)
            IN  IF isclose(p, sv.p1)
                THEN /\ pc' = "done"
                     /\ sv' = [sv EXCEPT !.itr = @ + 1]
                     /\ ret' = ytm_return(p)
                ELSE IF f.exc # "none"
                THEN /\ pc' = "done"
                     /\ sv' = [sv EXCEPT !.itr = @ + 1]
                     /\ ret' = ytm_except(f.exc)
                ELSE /\ pc' = "secant"
                     /\ sv' = [p0 |-> sv.p1, q0 |-> sv.q1, p1 |-> p, q1 |-> f.val,
                               itr |-> sv.itr + 1]
                     /\ ret' = ret

\* the loop ran maxiter times: newton raises RuntimeError (disp is True)
SecantExhausted ==
    /\ pc = "secant"
    /\ sv.itr = maxiter
    /\ pc' = "done"
    /\ ret' = ytm_except("RuntimeError: failed to converge")
    /\ UNCHANGED <<fn, args, sv>>

\* The caller has its result; the values of the call are discarded.
Return ==
    /\ fn # "none"
    /\ pc \in {"idle", "done"}
    /\ fn' = "none"
    /\ args' = <<>>
    /\ ret' = Returned(NoValue)
    /\ pc' = "idle"
    /\ sv' = Idle

CallRepoTransaction ==
    /\ fn = "none"
    /\ \E principal \in Principals, repo_rate \in RepoRates, days \in RepoDays :
        /\ fn' = "calculate_repo_transaction"
        /\ args' = [principal |-> principal, repo_rate |-> repo_rate, days |-> days]
        /\ ret' = calculate_repo_transaction(principal, repo_rate, days)
    /\ UNCHANGED <<pc, sv>>

\* update_plots: final_forward = calculate_forward_price(...), then
\* final_carry = calculate_carry(principal, final_forward)
CallForwardPrice ==
    /\ fn = "none"
    /\ \E dirty_price \in DirtyPrices, repo_rate \in RepoRates \ {RZero},
          days_to_forward \in RepoDays, coupon \in Coupons, days_to_coupon \in RepoDays :
        LET forward == calculate_forward_price(dirty_price, repo_rate, days_to_forward,
                                               coupon, days_to_coupon)
        IN  /\ fn' = "calculate_forward_price"
            /\ args' = [dirty_price |-> dirty_price, repo_rate |-> repo_rate,
                        days_to_forward |-> days_to_forward, coupon |-> coupon,
                        days_to_coupon |-> days_to_coupon]
            /\ ret' = [exc |-> forward.exc, val |-> forward.val,
                       carry |-> calculate_carry(dirty_price, forward.val)]
    /\ UNCHANGED <<pc, sv>>

CallRollDown ==
    /\ fn = "none"
    /\ \E current_yield \in CurrentYields, historical_yields \in Histories :
        /\ fn' = "calculate_roll_down"
        /\ args' = [current_yield |-> current_yield,
                    historical_yields |-> historical_yields]
        /\ ret' = calculate_roll_down(current_yield, historical_yields)
    /\ UNCHANGED <<pc, sv>>

CallRepoAdjustedYield ==
    /\ fn = "none"
    /\ \E special_yield \in CurrentYields, gc_rate \in CurrentYields,
          special_rate \in RepoRates, holding_days \in RepoDays, pv \in Pv01s :
        /\ fn' = "repo_adjusted_yield"
        /\ args' = [special_yield |-> special_yield, gc_rate |-> gc_rate,
                    special_rate |-> special_rate, holding_days |-> holding_days,
                    pv01 |-> pv]
        /\ ret' = repo_adjusted_yield(special_yield, gc_rate, special_rate,
                                      holding_days, pv)
    /\ UNCHANGED <<pc, sv>>

\* update_metrics: pv01_val, pvbp_val or conv_val of the bond of the form
CallRiskMetric ==
    /\ fn = "none"
    /\ \E metric \in {"pv01", "pvbp", "convexity"},
          face_value \in RiskFaces, coupon_rate \in RiskCoupons,
          ytm \in RiskYields, years_to_maturity \in RiskYears :
        /\ fn' = metric
        /\ args' = [face_value |-> face_value, coupon_rate |-> coupon_rate,
                    ytm |-> ytm, years_to_maturity |-> years_to_maturity]
        /\ ret' = CASE metric = "pv01" ->
                          pv01(face_value, coupon_rate, ytm, years_to_maturity)
                     [] metric = "pvbp" ->
                          pvbp(face_value, coupon_rate, ytm, years_to_maturity)
                     [] metric = "convexity" ->
                          convexity(face_value, coupon_rate, ytm, years_to_maturity)
    /\ UNCHANGED <<pc, sv>>

\* discount_factor(r, m, T) for a whole number of periods T * m; r = -m makes
\* the base 1 + r/m zero
CallDiscountFactor ==
    /\ fn = "none"
    /\ \E r \in DiscountRates, m \in CompPerYear, T \in YearsToMaturity :
        /\ RIsInt(RMul(T, RInt(m)))
        /\ fn' = "discount_factor"
        /\ args' = [r |-> r, m |-> m, T |-> T]
        /\ ret' = discount_factor_call(r, m, T)
    /\ UNCHANGED <<pc, sv>>

\* update_app (1_topic1.py): the time-value results of the form, for a whole
\* number of periods T * m
CallUpdateApp ==
    /\ fn = "none"
    /\ \E PV \in PresentValues, r \in Rates, m \in CompPerYear, T \in YearsToMaturity :
        /\ RIsInt(RMul(T, RInt(m)))
        /\ fn' = "update_app"
        /\ args' = [PV |-> FInt(PV), r |-> FromRat(r), m |-> m, T |-> T]
        /\ ret' = update_app(FInt(PV), FromRat(r), m, T)
    /\ UNCHANGED <<pc, sv>>

Next ==
    \/ CallRiskMetric
    \/ CallRepoTransaction
    \/ CallForwardPrice
    \/ CallRollDown
    \/ CallRepoAdjustedYield
    \/ CallBondPrice
    \/ CallCalculateBondPrice
    \/ CallBondValuation
    \/ CallAccruedInterest
    \/ CallPriceCurve
    \/ CallDiscountFactor
    \/ CallUpdateApp
    \/ CallMetricsPrice
    \/ CallCalculateYtm
    \/ SecantIterate
    \/ SecantExhausted
    \/ Return

Spec == Init /\ [][Next]_vars

---------------------------------------------------------------------------
(* Properties. *)

Periods == RMul(args.years_to_maturity, RInt(args.comp_per_year))

IsPricerCall == fn \in {"bond_price", "calculate_bond_price"}

\* the tolerance of "equal within tolerance" for a yield: 1e-6
YieldTol == <<10000000, -13>>

FClose(x, y) == FLeq(FAbs(FSub(x, y)), YieldTol)

SolveDone == fn = "calculate_ytm" /\ pc = "done"

ValidBond == RIsInt(args.years_to_maturity)

\* (face_value * coupon_rate / m) / (1 + ytm/m)^t
DiscountedCoupon(face_value, coupon_rate, ytm, m, t) ==
    RDiv(RDiv(RMul(face_value, coupon_rate), RInt(m)),
         RPow(RAdd(ROne, RDiv(ytm, RInt(m))), t))

\* sum over t = 1..N of the discounted coupons
RECURSIVE SumDiscountedCoupons(_, _, _, _, _)
SumDiscountedCoupons(face_value, coupon_rate, ytm, m, N) ==
    IF N <= 0 THEN RZero
    ELSE RAdd(DiscountedCoupon(face_value, coupon_rate, ytm, m, N),
              SumDiscountedCoupons(face_value, coupon_rate, ytm, m, N - 1))

DiscountedFace(face_value, ytm, m, N) ==
    RDiv(face_value, RPow(RAdd(ROne, RDiv(ytm, RInt(m))), N))

\* C1: the price returned by either pricer is the sum over t = 1..N of the
\* discounted coupons plus the discounted face value, N = periods_per_year *
\* years_to_maturity; and the bond of Scenario A (1000, 5%, 6%, 5 years, 2
\* periods a year) is priced at 957.35 to the cent.
C1_PriceIsDiscountedSum ==
    /\ (IsPricerCall /\ ret.exc = "none")
          => ret.val = RAdd(SumDiscountedCoupons(args.face_value, args.coupon_rate,
                                                 args.ytm, args.comp_per_year,
                                                 Periods[1]),
                            DiscountedFace(args.face_value, args.ytm,
                                           args.comp_per_year, Periods[1]))
    /\ (fn = "update_metrics"
           /\ args = [face_value |-> FInt(1000), coupon_rate |-> FromRat(Rat(5, 100)),
                      ytm |-> FromRat(Rat(6, 100)), years_to_maturity |-> RInt(5)])
          => /\ ret.exc = "none"
             /\ FLeq(FAbs(FSub(ret.val, FromRat(Rat(95735, 100)))), FromRat(Rat(5, 1000)))

C1_Witness ==
    /\ IsPricerCall
    /\ ret.exc = "none"
    /\ Periods[1] = 4
    /\ args.coupon_rate[1] > 0
    /\ args.ytm[1] > 0

\* C2: for a bond with positive cash flows and at least one period the price
\* is strictly decreasing in the rate: along the increasing grid of yields,
\* every later price is strictly below every earlier one.
C2_PriceStrictlyDecreasing ==
    (fn = "price_curve" /\ ret.exc = "none" /\ Periods[1] >= 1)
        => \A i, j \in 1..Len(ret.prices) :
              i < j => RLess(ret.prices[j], ret.prices[i])

C2_Witness ==
    /\ fn = "price_curve"
    /\ ret.exc = "none"
    /\ Periods[1] >= 3
    /\ args.coupon_rate = RZero
    /\ Len(ret.prices) >= 3

\* Python's round(): to the nearest whole number, a tie to the even one
RRound(x) ==
    LET f == x[1] \div x[2]
        twice == 2 * (x[1] - f * x[2])
    IN  IF twice < x[2] THEN f
        ELSE IF twice > x[2] THEN f + 1
        ELSE IF f % 2 = 0 THEN f ELSE f + 1

\* C6: a bond with a positive face value and at least one period is priced
\* at its face value exactly when ytm = coupon_rate, below it when ytm >
\* coupon_rate and above it when ytm < coupon_rate; and the yield solve asked
\* for the yield at a price equal to the face value returns the coupon rate.
C6_ParDiscountPremium ==
    /\ (fn = "bond_price" /\ ret.exc = "none" /\ Periods[1] >= 1
           /\ RLess(RZero, args.face_value))
          => /\ (ret.val = args.face_value) <=> (args.ytm = args.coupon_rate)
             /\ RLess(args.coupon_rate, args.ytm) => RLess(ret.val, args.face_value)
             /\ RLess(args.ytm, args.coupon_rate) => RLess(args.face_value, ret.val)
    /\ (SolveDone /\ ValidBond /\ args.price = args.face_value)
          => /\ ~ret.nan
             /\ FClose(ret.val, args.coupon_rate)

C6_Witness ==
    /\ SolveDone
    /\ ValidBond
    /\ args.price = args.face_value
    /\ args.coupon_rate[1] > 0
    /\ sv.itr >= 2
    /\ ~ret.nan
    /\ ret.why = "converged"

\* C7: the number of cash flows generated is round(periods_per_year *
\* years_to_maturity), also where the product is not a whole number.
C7_PeriodCountIsRounded ==
    (fn = "bond_valuation" /\ ret.exc = "none")
        => Len(ret.cash_flows) = RRound(RMul(args.T, RInt(args.m)))

\* C8: the schedule returned by bond_valuation pairs N times with N amounts:
\* equal lengths, times k/m for k = 1..N, every amount but the last the
\* coupon payment and the last the coupon payment plus the face value.
C8_ScheduleIsPaired ==
    (fn = "bond_valuation" /\ ret.exc = "none")
        => LET N == Len(ret.cash_flows)
               cp == RDiv(RMul(args.face_value, args.coupon), RInt(args.m))
           IN  /\ Len(ret.times) = N
               /\ \A k \in 1..N : ret.times[k] = Rat(k, args.m)
               /\ \A k \in 1..(N - 1) : RLess(ret.times[k], ret.times[k + 1])
               /\ \A k \in 1..(N - 1) : ret.cash_flows[k] = cp
               /\ ret.cash_flows[N] = RAdd(cp, args.face_value)

\* C9: with a period count N <= 0, schedule generation and pricing fail with
\* an InvalidScheduleError.
C9_NoPeriodsIsInvalidSchedule ==
    /\ (fn = "bond_valuation" /\ RTrunc(RMul(args.T, RInt(args.m))) <= 0)
          => ret.exc = "InvalidScheduleError"
    /\ (fn = "bond_price" /\ RIsInt(args.years_to_maturity) /\ Periods[1] <= 0)
          => ret.exc = "InvalidScheduleError"

\* C10: accrued_interest fails with an InvalidDateRangeError whenever the
\* settlement precedes the last coupon, the next coupon is not after the last
\* one, or the period has no days.
C10_BadDatesAreRejected ==
    (fn = "accrued_interest"
        /\ (\/ args.settlement_date < args.last_coupon_date
            \/ args.next_coupon_date <= args.last_coupon_date
            \/ args.next_coupon_date - args.last_coupon_date = 0))
        => ret.exc = "InvalidDateRangeError"

\* the yields of the grid whose price is the target price of the call
YieldsOfTarget ==
    {y \in SolverYields :
        (bond_price_float(args.face_value, args.coupon_rate, FromRat(y),
                          args.years_to_maturity, args.comp_per_year)).val
            = args.price}

\* C3: round trip of the yield solve: called with the price of a valid bond
\* at a yield y in (0, 0.5), calculate_ytm returns y within tolerance, and
\* not the failure value.
C3_RoundTrip ==
    (SolveDone /\ ValidBond)
        => \A y \in YieldsOfTarget :
              ~ret.nan /\ FClose(ret.val, FromRat(y))

\* C4: the yield solve starts from the coupon rate, makes at most maxiter
\* passes, never raises, and a solve that ends without converging (maxiter
\* passes made, or a zero slope between the two points) returns the failure
\* value nan.
C4_SolveBoundedNoCrash ==
    fn = "calculate_ytm"
        => /\ sv.itr <= maxiter
           /\ ret.exc = "none"
           /\ sv.itr = 0 => args.coupon_rate \in {sv.p0, sv.p1}
           /\ (pc = "done" /\ ret.why # "converged") => ret.nan
           /\ (pc = "done" /\ ~ret.nan) => ret.why = "converged"

C4_Witness ==
    /\ SolveDone
    /\ sv.itr = maxiter
    /\ ret.why = "RuntimeError: failed to converge"
    /\ ret.nan

\* C5: given a target price that no yield can give (a negative price), the
\* yield solve returns the failure value, never a yield.
C5_ImpossiblePriceFails ==
    (SolveDone /\ args.price[1] < 0) => ret.nan

C5_Witness ==
    /\ SolveDone
    /\ ValidBond
    /\ args.price[1] < 0
    /\ sv.itr >= 2
    /\ ret.nan

\* the coupon of one period: face_value * coupon_rate / periods_per_year
CouponPayment == RDiv(RMul(args.face_value, args.coupon_rate), RInt(args.comp_per_year))

ValidDates ==
    /\ args.last_coupon_date <= args.settlement_date
    /\ args.last_coupon_date < args.next_coupon_date

\* C11: for valid dates (last_coupon <= settlement, last_coupon < next_coupon)
\* accrued_interest returns the coupon payment times the days from the last
\* coupon to settlement over the days from the last coupon to the next one:
\* 0 at settlement = last_coupon, one full coupon at settlement = next_coupon.
C11_AccruedIsProRata ==
    (fn = "accrued_interest" /\ ValidDates)
        => /\ ret.exc = "none"
           /\ ret.val = RDiv(RMul(CouponPayment,
                                  RInt(args.settlement_date - args.last_coupon_date)),
                             RInt(args.next_coupon_date - args.last_coupon_date))
           /\ args.settlement_date = args.last_coupon_date => ret.val = RZero
           /\ args.settlement_date = args.next_coupon_date => ret.val = CouponPayment

C11_Witness ==
    /\ fn = "accrued_interest"
    /\ args.last_coupon_date < args.settlement_date
    /\ args.settlement_date < args.next_coupon_date
    /\ args.next_coupon_date - args.last_coupon_date = 3
    /\ args.coupon_rate[1] > 0
    /\ ret.exc = "none"
    /\ RLess(RZero, ret.val)
    /\ RLess(ret.val, CouponPayment)

\* the price of the bond of the call at coupon rate c and yield y
PriceAt(c, y) ==
    calculate_bond_price_big(args.face_value, c, y, args.years_to_maturity, 2).val

\* face_value > 0 and coupon_rate >= 0: every cash flow is positive
PositiveCashFlows == QSign(args.face_value) > 0 /\ QSign(args.coupon_rate) >= 0

\* C12: when the base price price(ytm) is 0, convexity fails with a
\* DegenerateBondError.
C12_ZeroPriceIsDegenerate ==
    (fn = "convexity" /\ QIsZero(PriceAt(args.coupon_rate, args.ytm)))
        => ret.exc = "DegenerateBondError"

\* C13: for a bond with face_value > 0, coupon_rate >= 0 and at least one
\* period, at a positive yield, convexity is >= 0: price(ytm + 1bp) +
\* price(ytm - 1bp) >= 2 * price(ytm).
C13_ConvexityNonNegative ==
    (fn = "convexity" /\ PositiveCashFlows /\ QSign(args.ytm) > 0)
        => /\ ret.exc = "none"
           /\ QSign(ret.val) >= 0
           /\ QLeq(QMul(QInt(2), ret.price_base), QAdd(ret.price_up, ret.price_down))

C13_Witness ==
    /\ fn = "convexity"
    /\ QSign(args.face_value) > 0
    /\ QSign(args.coupon_rate) > 0
    /\ args.ytm = QFrac(6, 100)
    /\ args.years_to_maturity = 2
    /\ ret.exc = "none"
    /\ QSign(ret.val) > 0

\* C14: pv01 returns (price(ytm) - price(ytm + 0.0001)) * 100, and the value
\* is strictly positive for a bond whose cash flows are positive.
C14_Pv01IsPriceDecline ==
    fn = "pv01"
        => /\ ret.exc = "none"
           /\ QEq(ret.val,
                  QMul(QSub(PriceAt(args.coupon_rate, args.ytm),
                            PriceAt(args.coupon_rate, QAdd(args.ytm, QFrac(1, 10000)))),
                       QInt(100)))
           /\ PositiveCashFlows => QSign(ret.val) > 0

C14_Witness ==
    /\ fn = "pv01"
    /\ QSign(args.face_value) > 0
    /\ args.coupon_rate = QInt(0)
    /\ args.years_to_maturity = 2
    /\ ret.exc = "none"
    /\ QSign(ret.val) > 0

\* the value of 1 paid at the end of each of n periods, at yield y, 2
\* periods a year
RECURSIVE AnnuityFactor(_, _)
AnnuityFactor(y, n) ==
    IF n = 0 THEN QInt(0)
    ELSE QAdd(AnnuityFactor(y, n - 1),
              QDiv(QInt(1), QPowNat(QAdd(QInt(1), QDiv(y, QInt(2))), n)))

\* C15: pvbp returns (price at coupon_rate + 0.0001 - price at coupon_rate) *
\* 100, both prices at the yield ytm: the value of 100 * face_value * 0.0001
\* / 2 paid every period, discounted at ytm.
C15_PvbpIsCouponShift ==
    fn = "pvbp"
        => /\ ret.exc = "none"
           /\ QEq(ret.val,
                  QMul(QSub(PriceAt(QAdd(args.coupon_rate, QFrac(1, 10000)), args.ytm),
                            PriceAt(args.coupon_rate, args.ytm)),
                       QInt(100)))
           /\ QEq(ret.val,
                  QMul(QMul(QInt(100), QDiv(QMul(args.face_value, QFrac(1, 10000)),
                                            QInt(2))),
                       AnnuityFactor(args.ytm, 2 * args.years_to_maturity)))

C15_Witness ==
    /\ fn = "pvbp"
    /\ QSign(args.face_value) > 0
    /\ QSign(args.coupon_rate) > 0
    /\ args.years_to_maturity = 2
    /\ ret.exc = "none"
    /\ QSign(ret.val) > 0

\* simple interest on an actual/360 basis: 1 + rate * days / 360
SimpleGrowth(rate, days) == RAdd(ROne, RDiv(RMul(rate, RInt(days)), RInt(360)))

RepoInputsValid ==
    /\ RLess(RZero, args.principal)
    /\ RLeq(RZero, args.repo_rate)
    /\ args.days > 0

\* C16: calculate_repo_transaction never raises; it returns principal *
\* (1 + repo_rate * days / 360) when principal > 0, repo_rate >= 0 and days >
\* 0, and 0 in every other case; (1000000, 0.035, 30) gives 1002916.67 to the
\* cent.
C16_RepoRepaymentIsTotal ==
    fn = "calculate_repo_transaction"
        => /\ ret.exc = "none"
           /\ RepoInputsValid
                => ret.val = RMul(args.principal, SimpleGrowth(args.repo_rate, args.days))
           /\ ~RepoInputsValid => ret.val = RZero
           /\ args = [principal |-> RInt(1000000), repo_rate |-> Rat(35, 1000), days |-> 30]
                => /\ RLess(Rat(100291666, 100), ret.val)
                   /\ RLess(ret.val, Rat(100291668, 100))

C16_Witness ==
    /\ fn = "calculate_repo_transaction"
    /\ args = [principal |-> RInt(1000000), repo_rate |-> Rat(35, 1000), days |-> 30]
    /\ ret = Returned(Rat(3008750, 3))

CouponFallsBefore ==
    /\ 0 < args.days_to_coupon
    /\ args.days_to_coupon < args.days_to_forward

\* C17: for days_to_forward > 0 the forward price is dirty_price * (1 +
\* repo_rate * days_to_forward / 360), less coupon * (1 + repo_rate *
\* (days_to_forward - days_to_coupon) / 360) exactly when 0 < days_to_coupon <
\* days_to_forward; nothing is subtracted otherwise.
C17_ForwardPriceFormula ==
    (fn = "calculate_forward_price" /\ args.days_to_forward > 0)
        => /\ ret.exc = "none"
           /\ CouponFallsBefore
                => ret.val = RSub(RMul(args.dirty_price,
                                       SimpleGrowth(args.repo_rate, args.days_to_forward)),
                                  RMul(args.coupon,
                                       SimpleGrowth(args.repo_rate,
                                                    args.days_to_forward
                                                      - args.days_to_coupon)))
           /\ ~CouponFallsBefore
                => ret.val = RMul(args.dirty_price,
                                  SimpleGrowth(args.repo_rate, args.days_to_forward))

C17_Witness ==
    /\ fn = "calculate_forward_price"
    /\ args.days_to_forward = 90
    /\ args.days_to_coupon = 30
    /\ args.coupon = RInt(25)
    /\ RLess(RZero, args.repo_rate)
    /\ RLess(ret.val, RMul(args.dirty_price,
                           SimpleGrowth(args.repo_rate, args.days_to_forward)))

\* C18: for days_to_forward <= 0 the forward price is the dirty price, with
\* any repo rate, coupon and days_to_coupon, and the carry computed from it
\* is 0.
C18_NoForwardPeriodNoCarry ==
    (fn = "calculate_forward_price" /\ args.days_to_forward <= 0)
        => /\ ret.exc = "none"
           /\ ret.val = args.dirty_price
           /\ ret.carry = RZero

C18_Witness ==
    /\ fn = "calculate_forward_price"
    /\ args.days_to_forward = -1
    /\ args.days_to_coupon = -1
    /\ args.coupon = RInt(25)
    /\ RLess(RZero, args.repo_rate)
    /\ ret.val = args.dirty_price
    /\ ret.carry = RZero

YieldInputsValid == RLess(RZero, args.pv01) /\ args.holding_days > 0

\* C19: repo_adjusted_yield never raises; it returns special_yield +
\* ((gc_rate - special_rate) * 365 * holding_days) / (360 * pv01 * 100) when
\* pv01 > 0 and holding_days > 0, and special_yield unchanged otherwise.
C19_RepoAdjustedYield ==
    fn = "repo_adjusted_yield"
        => /\ ret.exc = "none"
           /\ YieldInputsValid
                => ret.val = RAdd(args.special_yield,
                                  RDiv(RMul(RSub(args.gc_rate, args.special_rate),
                                            RInt(365 * args.holding_days)),
                                       RMul(RInt(36000), args.pv01)))
           /\ ~YieldInputsValid => ret.val = args.special_yield

C19_Witness ==
    /\ fn = "repo_adjusted_yield"
    /\ args.pv01 = Rat(1898, 1000)
    /\ args.holding_days = 30
    /\ RLess(args.special_rate, args.gc_rate)
    /\ RLess(args.special_yield, ret.val)

\* C20: calculate_roll_down returns current_yield minus the last element of
\* historical_yields, 0 for an empty history, and leaves the history as it
\* was passed in.
C20_RollDown ==
    fn = "calculate_roll_down"
        => LET h == args.historical_yields
           IN  /\ ret.exc = "none"
               /\ Len(h) > 0 => ret.val = RSub(args.current_yield, h[Len(h)])
               /\ Len(h) = 0 => ret.val = RZero
               /\ ret.historical_yields = h

C20_Witness ==
    /\ fn = "calculate_roll_down"
    /\ Len(args.historical_yields) = 2
    /\ args.historical_yields[1] # args.historical_yields[2]
    /\ ret.val # RZero
    /\ ret.val = RSub(args.current_yield, args.historical_yields[2])
    /\ ret.historical_yields = args.historical_yields

\* the period count of a pricing call: periods_per_year * years
PricingPeriods ==
    IF fn = "bond_valuation" THEN RMul(args.T, RInt(args.m)) ELSE Periods

PricingPerYear == IF fn = "bond_valuation" THEN args.m ELSE args.comp_per_year

IsPricingCall == fn \in {"bond_price", "calculate_bond_price", "bond_valuation"}

\* C22: a pricing function given a non-positive face value, a non-positive
\* number of periods per year or a non-positive period count raises an
\* InvalidInputError and returns no price.
C22_InvalidInputIsRejected ==
    (/\ IsPricingCall
     /\ \/ RLeq(args.face_value, RZero)
        \/ PricingPerYear <= 0
        \/ RLeq(PricingPeriods, RZero))
        => ret.exc = "InvalidInputError"

\* |x - y| <= 1e-6 * |y|
RelClose(x, y) == FLeq(FAbs(FSub(x, y)), FMul(<<10000000, -13>>, FAbs(y)))

\* C21: the present value of the future value of PV is PV again within
\* tolerance, under the discrete convention, under the continuous convention
\* and under the simple convention.
C21_RoundTripPerConvention ==
    fn = "update_app"
        => /\ RelClose(ret.pv, args.PV)
           /\ RelClose(present_value(ret.fv_continuous, args.r, args.m, args.T), args.PV)
           /\ RelClose(present_value(ret.fv_simple, args.r, args.m, args.T), args.PV)

C24_PricersAgree ==
    (fn = "bond_valuation" /\ RIsInt(args.T))
        => LET p2 == bond_price(args.face_value, args.coupon, args.r, args.T, args.m)
               p3 == calculate_bond_price(args.face_value, args.coupon, args.r,
                                          args.T, args.m)
           IN  /\ (ret.exc = "none") <=> (p2.exc = "none")
               /\ (ret.exc = "none") <=> (p3.exc = "none")
               /\ ret.exc = "none" => (ret.val = p2.val /\ ret.val = p3.val)

\* the coupon rates pvbp is compared at
OtherCoupons == RiskCoupons \cup {QFrac(1, 100), QInt(1)}

\* C25: pvbp does not depend on the coupon rate: at every other coupon rate
\* c2 pvbp(face_value, c2, ytm, years) returns the value returned at the
\* bond's own coupon rate, and the price is linear in the coupon rate, with
\* slope (face_value / 2) * sum over t = 1..2*years of (1 + ytm/2)^(-t).
C25_PvbpIgnoresCouponRate ==
    fn = "pvbp"
        => /\ ret.exc = "none"
           /\ \A c2 \in OtherCoupons :
                  LET other == pvbp(args.face_value, c2, args.ytm, args.years_to_maturity)
                  IN  /\ other.exc = "none"
                      /\ QEq(other.val, ret.val)
                      /\ QEq(QSub(PriceAt(c2, args.ytm), PriceAt(args.coupon_rate, args.ytm)),
                             QMul(QSub(c2, args.coupon_rate),
                                  QMul(QDiv(args.face_value, QInt(2)),
                                       AnnuityFactor(args.ytm,
                                                     2 * args.years_to_maturity))))

C25_Witness ==
    /\ fn = "pvbp"
    /\ QSign(args.face_value) > 0
    /\ QIsZero(args.coupon_rate)
    /\ args.years_to_maturity = 2
    /\ ret.exc = "none"
    /\ QEq(ret.val, pvbp(args.face_value, QInt(1), args.ytm, 2).val)
    /\ QSign(ret.val) > 0

=============================================================================
